---- MODULE Spec2Model ----
(***************************************************************************)
(* Message board canister (src/src/index.ts): an express application whose *)
(* handlers read and write one StableBTreeMap<string, Message>.            *)
(*                                                                         *)
(* Ids are modelled as integers that stand for key strings in ascending    *)
(* key order: 1..MaxUuid are the strings uuidv4() returns (they start with *)
(* a hex digit), SearchId is the literal path segment "search", which      *)
(* sorts after every uuid.  Texts are sequences of characters.  A Date is  *)
(* modelled by the integer number of milliseconds it serialises to.        *)
(***************************************************************************)
EXTENDS Integers, Sequences, FiniteSets, TLC

\* ---------------------------------------------------------------- bounds
MaxUuid == 2
MaxTicks == 1
TickNs == 1500000
MaxWrites == 3

\* ------------------------------------------------------------- constants
NsPerMs == 1000000

Uuids == 1..MaxUuid
SearchId == MaxUuid + 1
Ids == Uuids \cup {SearchId}
NoSeg == 0

\* A timestamp a caller may put in a JSON body: later than any clock value.
CallerMs == ((MaxTicks + 2) * TickNs) \div NsPerMs + 5

VARIABLES
    store,      \* messagesStorage: key -> stored Message (stable memory)
    icTime,     \* ic.time(), nanoseconds
    issued,     \* the ids uuidv4() has returned so far
    writes,     \* POST, PUT and DELETE requests served so far
    storeApi,   \* which azle StableBTreeMap the canister is built against
    req,        \* the request handled by the last step
    res         \* the response sent by the last step

vars == <<store, icTime, issued, writes, storeApi, req, res>>

\* --------------------------------------------------------------- strings
ToLowerChar(c) ==
    IF c = "H" THEN "h" ELSE IF c = "I" THEN "i" ELSE IF c = "B" THEN "b" ELSE c

toLowerCase(s) == [i \in 1..Len(s) |-> ToLowerChar(s[i])]

includes(s, q) ==
    \E i \in 0..(Len(s) - Len(q)) : SubSeq(s, i + 1, i + Len(q)) = q

\* ---------------------------------------------------------- JSON objects
\* An object is a function from its property names to their values.
EmptyObject == [f \in {} |-> 0]

\* { ...a, ...b }
Spread(a, b) ==
    [f \in DOMAIN a \cup DOMAIN b |-> IF f \in DOMAIN b THEN b[f] ELSE a[f]]

Has(o, f) == f \in DOMAIN o

\* ------------------------------------------------------- StableBTreeMap
RECURSIVE SortedSeq(_)
SortedSeq(S) ==
    IF S = {} THEN <<>>
    ELSE LET m == CHOOSE x \in S : \A y \in S : x <= y
         IN  <<m>> \o SortedSeq(S \ {m})

\* What get/remove hand back.  Built against the Opt API the result is the
\* object {Some: v} or {None: null}; built against the nullable API it is v
\* or null.
Found(api, v) ==
    IF api = "opt" THEN [kind |-> "Some", val |-> v]
    ELSE [kind |-> "value", val |-> v]

Absent(api) ==
    IF api = "opt" THEN [kind |-> "None"] ELSE [kind |-> "null"]

StoreGet(api, s, k) ==
    IF k \in DOMAIN s THEN Found(api, s[k]) ELSE Absent(api)

StoreInsert(s, k, v) ==
    [x \in DOMAIN s \cup {k} |-> IF x = k THEN v ELSE s[x]]

StoreRemove(s, k) == [x \in DOMAIN s \ {k} |-> s[x]]

\* values() of a map that iterates from the largest key down.
StoreValuesDescending(s) ==
    LET keys == SortedSeq(DOMAIN s)
        n == Len(keys)
    IN  [i \in 1..n |-> s[keys[n + 1 - i]]]

\* values(): all current values in ascending key order.
StoreValues(s) ==
    LET keys == SortedSeq(DOMAIN s)
    IN  [i \in 1..Len(keys) |-> s[keys[i]]]

\* JavaScript truthiness of a get/remove result: only null is falsy.
Truthy(r) == r.kind # "null"

\* messageOpt.Some: the wrapped value of {Some: v}; on a stored message, its
\* own property of that name, when a caller put one there; else undefined.
PropSome(r) ==
    IF r.kind = "Some" THEN [kind |-> "value", val |-> r.val]
    ELSE IF r.kind = "value" /\ Has(r.val, "Some")
         THEN [kind |-> "value", val |-> r.val.Some]
    ELSE [kind |-> "undefined"]

\* ----------------------------------------------------------------- clock
\* new Date(ic.time() / 1000_000): the time of the request being handled,
\* truncated to whole milliseconds.
getCurrentDate == icTime' \div NsPerMs

\* ------------------------------------------------------------- responses
Json(code, value) == [status |-> code, body |-> value]
Text(code) == [status |-> code, body |-> [kind |-> "text"]]
\* An exception leaving a handler: express answers 500.
Thrown == [status |-> 500, body |-> [kind |-> "error"]]
NoResponse == [status |-> 0, body |-> [kind |-> "none"]]

\* -------------------------------------------------------------- handlers
\* app.post("/messages")
PostMessages(body) ==
    \E u \in Uuids \ issued :
        LET message ==
                Spread(("id" :> u) @@ ("createdAt" :> getCurrentDate), body)
        IN  /\ store' = StoreInsert(store, message.id, message)
            /\ issued' = issued \cup {u}
            /\ res' = Json(200, [kind |-> "value", val |-> message])

\* app.get("/messages")
GetMessages ==
    /\ res' = Json(200, [kind |-> "list", val |-> StoreValues(store)])
    /\ UNCHANGED <<store, issued>>

\* The response of app.get("/messages/:id") on store s.
GetMessageResponse(api, s, messageId) ==
    LET messageOpt == StoreGet(api, s, messageId)
    IN  IF ~Truthy(messageOpt) THEN Text(404) ELSE Json(200, messageOpt)

\* app.get("/messages/:id")
GetMessage(messageId) ==
    /\ res' = GetMessageResponse(storeApi, store, messageId)
    /\ UNCHANGED <<store, issued>>

\* An update that stores the payload when there is nothing under the id.
PutMessageUpsert(messageId, body) ==
    LET messageOpt == StoreGet(storeApi, store, messageId)
        message == PropSome(messageOpt)
        updatedMessage ==
            Spread(Spread(IF message.kind = "value" THEN message.val
                          ELSE "id" :> messageId, body),
                   "updatedAt" :> getCurrentDate)
    IN  IF Truthy(messageOpt) /\ message.kind = "undefined"
        THEN /\ res' = Thrown
             /\ UNCHANGED <<store, issued>>
        ELSE /\ store' = StoreInsert(store, updatedMessage.id, updatedMessage)
             /\ res' = Json(200, [kind |-> "value", val |-> updatedMessage])
             /\ UNCHANGED issued

\* app.put("/messages/:id")
PutMessage(messageId, body) ==
    LET messageOpt == StoreGet(storeApi, store, messageId)
    IN  IF ~Truthy(messageOpt)
        THEN /\ res' = Text(400)
             /\ UNCHANGED <<store, issued>>
        ELSE LET message == PropSome(messageOpt)
                 updatedMessage ==
                     Spread(Spread(IF message.kind = "value" THEN message.val
                                   ELSE EmptyObject, body),
                            "updatedAt" :> getCurrentDate)
             IN  IF message.kind = "undefined"
                 THEN \* message!.id throws a TypeError
                      /\ res' = Thrown
                      /\ UNCHANGED <<store, issued>>
                 ELSE /\ store' = StoreInsert(store, message.val.id, updatedMessage)
                      /\ res' = Json(200, [kind |-> "value", val |-> updatedMessage])
                      /\ UNCHANGED issued

\* The response of app.delete("/messages/:id") on store s: remove hands back
\* what get would have.
DeleteMessageResponse(api, s, messageId) ==
    LET deletedMessage == StoreGet(api, s, messageId)
    IN  IF ~Truthy(deletedMessage) THEN Text(400)
        ELSE Json(200, deletedMessage)

\* app.delete("/messages/:id")
DeleteMessage(messageId) ==
    /\ store' = StoreRemove(store, messageId)
    /\ res' = DeleteMessageResponse(storeApi, store, messageId)
    /\ UNCHANGED issued

\* The filter predicate of the search handler throws on a record it reads
\* a missing title or body of.
SearchThrows(message, query) ==
    \/ ~Has(message, "title")
    \/ /\ ~includes(toLowerCase(message.title), query)
       /\ ~Has(message, "body")

SearchMatches(message, query) ==
    \/ includes(toLowerCase(message.title), query)
    \/ includes(toLowerCase(message.body), query)

\* The response of app.get("/messages/search") on store s.
SearchResponse(s, q) ==
    LET query == toLowerCase(q.text)
        all == StoreValues(s)
        Test(message) == SearchMatches(message, query)
    IN  IF ~q.given \/ query = <<>> THEN Text(400)
        ELSE IF \E i \in 1..Len(all) : SearchThrows(all[i], query) THEN Thrown
        ELSE Json(200, [kind |-> "list", val |-> SelectSeq(all, Test)])

\* app.get("/messages/search")
SearchMessages(q) ==
    /\ res' = SearchResponse(store, q)
    /\ UNCHANGED <<store, issued>>

\* --------------------------------------------------------------- routing
\* The routes in the order the application registers them.
Routes ==
    << [method |-> "POST",   pattern |-> "none",   handler |-> "postMessages"],
       [method |-> "GET",    pattern |-> "none",   handler |-> "getMessages"],
       [method |-> "GET",    pattern |-> "param",  handler |-> "getMessage"],
       [method |-> "PUT",    pattern |-> "param",  handler |-> "putMessage"],
       [method |-> "DELETE", pattern |-> "param",  handler |-> "deleteMessage"],
       [method |-> "GET",    pattern |-> "search", handler |-> "searchMessages"] >>

\* /messages, /messages/:id and /messages/search against the path
\* /messages (seg = NoSeg) or /messages/<seg>.
PathMatches(pattern, seg) ==
    CASE pattern = "none"   -> seg = NoSeg
      [] pattern = "param"  -> seg # NoSeg
      [] pattern = "search" -> seg = SearchId

\* express runs the first registered route that matches; no handler here
\* calls next().
Route(method, seg) ==
    LET hits == {i \in 1..Len(Routes) :
                    /\ Routes[i].method = method
                    /\ PathMatches(Routes[i].pattern, seg)}
    IN  Routes[CHOOSE i \in hits : \A j \in hits : i <= j].handler

NoQuery == [given |-> FALSE, text |-> <<>>]

Request(method, seg, body, q) ==
    [method |-> method, seg |-> seg, body |-> body, query |-> q,
     handler |-> Route(method, seg)]

\* The request arrives dt nanoseconds after the previous one.
Arrive(dt) ==
    /\ icTime + dt <= MaxTicks * TickNs
    /\ icTime' = icTime + dt

\* One request handled to completion by the handler it is routed to.
Serve(r) ==
    /\ req' = r
    /\ UNCHANGED storeApi
    /\ writes' = IF r.method = "GET" THEN writes ELSE writes + 1
    /\ CASE r.handler = "postMessages"   -> PostMessages(r.body)
         [] r.handler = "getMessages"    -> GetMessages
         [] r.handler = "getMessage"     -> GetMessage(r.seg)
         [] r.handler = "putMessage"     -> PutMessage(r.seg, r.body)
         [] r.handler = "deleteMessage"  -> DeleteMessage(r.seg)
         [] r.handler = "searchMessages" -> SearchMessages(r.query)

\* ---------------------------------------------------------------- inputs
Title1 == <<"H", "i">>
Body1 == <<"b">>
Body2 == <<"h", "i", "b">>
Url1 == <<"u">>

\* The ids a caller can put in a body: the ones it has been given.
KnownIds == issued

\* The JSON bodies a caller sends.
Bodies ==
    { ("title" :> Title1) @@ ("body" :> Body1) @@ ("attachmentURL" :> Url1),
      ("body" :> Body2),
      ("createdAt" :> CallerMs) @@ ("updatedAt" :> CallerMs),
      ("Some" :> ("id" :> SearchId)) }
    \cup { ("id" :> k) : k \in KnownIds }

Queries ==
    { NoQuery, [given |-> TRUE, text |-> <<>>], [given |-> TRUE, text |-> <<"H", "I">>] }

Delays == {0, TickNs}

\* ---------------------------------------------------------------- actions
\* POST /messages
Create ==
    /\ writes < MaxWrites
    /\ \E dt \in Delays : Arrive(dt)
    /\ \E body \in Bodies : Serve(Request("POST", NoSeg, body, NoQuery))

\* GET /messages
List ==
    /\ \E dt \in Delays : Arrive(dt)
    /\ Serve(Request("GET", NoSeg, EmptyObject, NoQuery))

\* GET /messages/<uuid>
Get ==
    /\ \E dt \in Delays : Arrive(dt)
    /\ \E id \in Uuids : Serve(Request("GET", id, EmptyObject, NoQuery))

\* PUT /messages/<id>
Update ==
    /\ writes < MaxWrites
    /\ \E dt \in Delays : Arrive(dt)
    /\ \E id \in Ids, body \in Bodies : Serve(Request("PUT", id, body, NoQuery))

\* DELETE /messages/<id>
Delete ==
    /\ writes < MaxWrites
    /\ \E dt \in Delays : Arrive(dt)
    /\ \E id \in Ids : Serve(Request("DELETE", id, EmptyObject, NoQuery))

\* GET /messages/search?query=...
Search ==
    /\ \E dt \in Delays : Arrive(dt)
    /\ \E q \in Queries : Serve(Request("GET", SearchId, EmptyObject, q))

\* An upgrade of a canister that keeps its messages in the heap.
UpgradeHeapOnly ==
    /\ req' = [method |-> "UPGRADE", seg |-> NoSeg, body |-> EmptyObject,
                query |-> NoQuery, handler |-> "none"]
    /\ res' = NoResponse
    /\ store' = EmptyObject
    /\ UNCHANGED <<icTime, issued, writes, storeApi>>

\* A canister upgrade: the heap is rebuilt, stable memory is kept.
Upgrade ==
    /\ req' = [method |-> "UPGRADE", seg |-> NoSeg, body |-> EmptyObject,
                query |-> NoQuery, handler |-> "none"]
    /\ res' = NoResponse
    /\ UNCHANGED <<store, icTime, issued, writes, storeApi>>

Init ==
    /\ store = EmptyObject
    /\ icTime = 0
    /\ issued = {}
    /\ writes = 0
    /\ storeApi \in {"opt", "nullable"}
    /\ req = [method |-> "INIT", seg |-> NoSeg, body |-> EmptyObject,
              query |-> NoQuery, handler |-> "none"]
    /\ res = NoResponse

Next == Create \/ List \/ Get \/ Update \/ Delete \/ Search \/ Upgrade

Spec == Init /\ [][Next]_vars

\* ================================================================ claims
Keys(s) == DOMAIN s

\* The record a JSON response carries (the message itself, or the value
\* inside {Some: ...}).
Carries(r, m) ==
    /\ r.status = 200
    /\ r.body.kind \in {"value", "Some"}
    /\ r.body.val = m

\* C1: create returns a Message whose id was the key of no record stored
\* before the call, whose createdAt is the current time and whose updatedAt
\* is absent, and get(id) right after returns that record.
C1_CreateFresh ==
    [][req'.handler = "postMessages" =>
          /\ res'.status = 200
          /\ LET m == res'.body.val
             IN  /\ m.id \notin Keys(store)
                 /\ m.createdAt = getCurrentDate
                 /\ ~Has(m, "updatedAt")
                 /\ Carries(GetMessageResponse(storeApi, store', m.id), m)]_vars

\* C2: for an id that is no key of the store, get ends with 404 and update
\* and delete end with 400.
C2_AbsentIsNotFound ==
    [][req'.seg \in Ids \ Keys(store) =>
          /\ req'.handler = "getMessage" => res'.status = 404
          /\ req'.handler = "putMessage" => res'.status = 400
          /\ req'.handler = "deleteMessage" => res'.status = 400]_vars

\* The records of s, in ascending key order, whose lowercased title or body
\* contains the lowercased query.
SearchExpected(s, q) ==
    LET query == toLowerCase(q)
        Hit(m) ==
            \/ Has(m, "title") /\ includes(toLowerCase(m.title), query)
            \/ Has(m, "body") /\ includes(toLowerCase(m.body), query)
    IN  SelectSeq(StoreValues(s), Hit)

\* C3: GET /messages/search with a non-empty query is answered with the
\* matching records in key order, and with an empty or missing query with
\* 400.
C3_SearchAnswered ==
    [][(req'.method = "GET" /\ req'.seg = SearchId) =>
          IF ~req'.query.given \/ req'.query.text = <<>>
          THEN res'.status = 400
          ELSE /\ res'.status = 200
               /\ res'.body.kind = "list"
               /\ res'.body.val = SearchExpected(store, req'.query.text)]_vars

\* The value of property f of object o, or "undefined".
Prop(o, f) == IF Has(o, f) THEN <<o[f]>> ELSE <<>>

\* C4: the record stored under a key after a successful update has the id
\* and the createdAt it had before, whatever the payload carries.
C4_IdCreatedAtImmutable ==
    [][(req'.handler = "putMessage" /\ res'.status = 200) =>
          \A k \in Keys(store) \cap Keys(store') :
              /\ Prop(store'[k], "id") = Prop(store[k], "id")
              /\ Prop(store'[k], "createdAt") = Prop(store[k], "createdAt")]_vars

\* C5: no two entries of the store hold records with the same id.
C5_UniqueIds ==
    \A k1, k2 \in Keys(store) : k1 # k2 => store[k1].id # store[k2].id

\* C6: update of a present id merges: fields absent from the payload keep
\* their value, fields present take the supplied one, the merged record is
\* written back under the same key, and it is what get then returns.
C6_UpdateMerges ==
    [][(req'.handler = "putMessage" /\ req'.seg \in Keys(store)) =>
          /\ res'.status = 200
          /\ LET old == store[req'.seg]
                 new == res'.body.val
                 b == req'.body
             IN  /\ \A f \in DOMAIN old \ (DOMAIN b \cup {"updatedAt"}) :
                        Has(new, f) /\ new[f] = old[f]
                 /\ \A f \in DOMAIN b \ {"updatedAt"} :
                        Has(new, f) /\ new[f] = b[f]
                 /\ req'.seg \in Keys(store')
                 /\ store'[req'.seg] = new
                 /\ Carries(GetMessageResponse(storeApi, store', req'.seg), new)]_vars

\* C7: a successful update sets updatedAt to the current time, every stored
\* record with an updatedAt has updatedAt >= createdAt, and the updatedAt of
\* the record under a key never decreases once set.
C7_UpdatedAtMonotone ==
    [][/\ (req'.handler = "putMessage" /\ res'.status = 200) =>
              res'.body.val.updatedAt = getCurrentDate
       /\ \A k \in Keys(store') :
              (Has(store'[k], "updatedAt") /\ Has(store'[k], "createdAt")) =>
                  store'[k].updatedAt >= store'[k].createdAt
       /\ \A k \in Keys(store) \cap Keys(store') :
              (Has(store[k], "updatedAt") /\ Has(store'[k], "updatedAt")) =>
                  store'[k].updatedAt >= store[k].updatedAt]_vars

C9_DeleteOnce ==
    [][(req'.handler = "deleteMessage" /\ req'.seg \in Keys(store)) =>
          /\ Carries(res', store[req'.seg])
          /\ req'.seg \notin Keys(store')
          /\ DeleteMessageResponse(storeApi, store', req'.seg).status = 400
          /\ GetMessageResponse(storeApi, store', req'.seg).status = 404]_vars

\* C10: list() returns every stored record exactly once, in ascending key
\* order; a list() right after a list() returns the same sequence.
C10_ListOrdered ==
    [][req'.handler = "getMessages" =>
          /\ res'.status = 200
          /\ res'.body.kind = "list"
          /\ LET out == res'.body.val
                 n == Len(out)
             IN  /\ n = Cardinality(Keys(store))
                 /\ \E ks \in [1..n -> Keys(store)] :
                        /\ \A i, j \in 1..n : i < j => ks[i] < ks[j]
                        /\ \A i \in 1..n : out[i] = store[ks[i]]
          /\ req.handler = "getMessages" => res'.body = res.body]_vars

\* A list() of two messages of which the one created first has the larger
\* key.
C10_Witness ==
    /\ req.handler = "getMessages"
    /\ Len(res.body.val) = 2
    /\ \A i \in 1..2 : Has(res.body.val[i], "createdAt")
    /\ res.body.val[1].createdAt > res.body.val[2].createdAt

\* C11: every operation is total: no request is answered by a thrown
\* exception (500), and the search handler throws on no reachable store,
\* whatever the query.
C11_Total ==
    /\ res.status \in {0, 200, 400, 404}
    /\ \A q \in Queries : SearchResponse(store, q) # Thrown

\* C12: create adds exactly one entry: the keys after it are the keys
\* before plus one new key, and every record stored before is unchanged.
C12_CreateAddsOne ==
    [][req'.handler = "postMessages" =>
          /\ Cardinality(Keys(store')) = Cardinality(Keys(store)) + 1
          /\ Keys(store) \subseteq Keys(store')
          /\ \A k \in Keys(store) : store'[k] = store[k]]_vars

\* C13: every entry of the store holds a record whose id is its key.
C13_IdIsKey ==
    \A k \in Keys(store) : Prop(store[k], "id") = <<k>>

\* C14: a successful update or delete of id changes no entry under another
\* key; update keeps the set of keys and delete removes exactly id.
C14_OnlyTargetChanges ==
    [][(req'.handler \in {"putMessage", "deleteMessage"} /\ res'.status = 200
            /\ req'.seg \in Keys(store)) =>
          /\ \A k \in (Keys(store) \cap Keys(store')) \ {req'.seg} :
                 store'[k] = store[k]
          /\ req'.handler = "putMessage" => Keys(store') = Keys(store)
          /\ req'.handler = "deleteMessage" =>
                 Keys(store') = Keys(store) \ {req'.seg}]_vars

\* C15: get, list and search leave the store as it is, and so do an update
\* and a delete of an id that is no key of the store.
C15_ReadsAndMissesKeepStore ==
    [][(\/ req'.method = "GET"
        \/ /\ req'.handler \in {"putMessage", "deleteMessage"}
           /\ req'.seg \notin Keys(store)) =>
          store' = store]_vars

\* An update of an id that is no key of a store holding a message.
C15_Witness ==
    /\ req.handler = "putMessage"
    /\ res.status # 200
    /\ req.seg \notin Keys(store)
    /\ Keys(store) # {}

====
